---- MODULE Spec2Model ----
(***************************************************************************)
(* Model of plspm's inner_model.py (_summary, _effects, InnerModel) and    *)
(* outer_model.py (OuterModel).                                            *)
(*                                                                         *)
(* Tables (pandas DataFrame / Series) are functions keyed by label.  The   *)
(* latent variables of a model are the first n names of LVNames, written   *)
(* by position 1..n; a matrix m is read m[row][col], the code's            *)
(* m.loc[row, col].  Numbers are exact integers: a coefficient, a          *)
(* correlation or an R^2 is the numerator of a fixed-point value, always   *)
(* finite.  What statsmodels and pandas compute from the data (the OLS     *)
(* results, the correlations) enters as a choice among the values such a   *)
(* computation can give.                                                   *)
(***************************************************************************)
EXTENDS Integers, Sequences, FiniteSets, TLC

\* ------------------------------------------------------------------ bounds
MaxLVs == 3        \* latent variables in a path matrix given to _effects
MaxArrows == 3     \* arrows of a path matrix, nonzero entries of a coefficient matrix

LVNames == <<"A", "B", "C", "D", "E", "F">>
RDen == 2          \* R^2 takes the values 0/RDen, ..., RDen/RDen
MaxRows == 4       \* cases in the scores table: MaxRows - 1 or MaxRows

CoefVals == {-1, 2}         \* values a nonzero coefficient takes
FitVals == CoefVals         \* values a fitted coefficient takes
InterceptVals == {7}        \* values a fitted intercept takes
CorrVals == {-1, 0, 1}      \* values a correlation takes
WeightVals == {1, 3}        \* values an indicator weight takes
CallerVals == {9}           \* values a caller writes into a table

\* ------------------------------------------------------------- table helpers
RECURSIVE SumTo(_, _)
\* f[1] + ... + f[n]
SumTo(f, n) == IF n = 0 THEN 0 ELSE f[n] + SumTo(f, n - 1)

\* len(list(path)): the number of labels of a square matrix, which are 1..n
NumLabels(m) == Len(m)

\* list(path): the column labels of a square matrix
Labels(m) == DOMAIN m

RECURSIVE Tabulate(_, _)
\* the sequence <<F(1), ..., F(n)>>, each entry computed once
Tabulate(F(_), n) == IF n = 0 THEN <<>> ELSE Append(Tabulate(F, n - 1), F(n))

\* the table of nr rows and nc columns whose entry at [r][c] is F(r, c)
Grid(F(_, _), nr, nc) ==
    LET Row(r) == LET Cell(c) == F(r, c) IN Tabulate(Cell, nc)
    IN Tabulate(Row, nr)

\* the square table over n labels
Table(F(_, _), n) == Grid(F, n, n)

\* pd.DataFrame(v, index=path.index, columns=path.columns)
Filled(m, v) == LET F(r, c) == v IN Table(F, NumLabels(m))

\* Dot with a fault: a * b, the elementwise product
DotElementwise(a, b) == LET F(r, c) == a[r][c] * b[r][c] IN Table(F, NumLabels(a))

\* a.dot(b): the matrix product, labels aligned
Dot(a, b) ==
    LET F(r, c) == SumTo([k \in Labels(a) |-> a[r][k] * b[k][c]], NumLabels(a))
    IN Table(F, NumLabels(a))

\* a + b, elementwise
Plus(a, b) == LET F(r, c) == a[r][c] + b[r][c] IN Table(F, NumLabels(a))

\* the composite label of a row: from + " -> " + to
Arrow(from, to) == LVNames[from] \o " -> " \o LVNames[to]

\* ------------------------------------------------------------------ _effects
\* range(1, num_lvs): the first index of the power loop
LoopFirst == 1

RECURSIVE PowerLoop(_, _, _, _)
\* the loop body for i, i+1, ..., num_lvs - 1; prev is path_effects[i - 1]
PowerLoop(path, i, prev, indirect_paths) ==
    IF i >= NumLabels(path) THEN indirect_paths
    ELSE LET cur == Dot(prev, path)
         IN PowerLoop(path, i + 1, cur, Plus(indirect_paths, cur))

\* SpecialBranch with a fault: the path matrix also taken as the indirect effects
SpecialBranchIndirectPath(path) ==
    [indirect |-> path, total |-> path]

\* the branch num_lvs = 2: indirect_paths stays the zero table, total_paths = path
SpecialBranch(path) ==
    [indirect |-> Filled(path, 0), total |-> path]

\* the else branch: the power series
GeneralBranch(path) ==
    LET indirect_paths == PowerLoop(path, LoopFirst, path, Filled(path, 0))
    IN [indirect |-> indirect_paths, total |-> Plus(path, indirect_paths)]

\* for from_lv in list(path): for to_lv in list(path): the pairs in loop order
LoopPairs(path) ==
    LET n == NumLabels(path)
    IN [i \in 1..(n * n) |-> [from |-> ((i - 1) \div n) + 1, to |-> ((i - 1) % n) + 1]]

\* EmitCond with a fault: the direct coefficient tested in place of the total
EmitCondDirect(m, p) == p.from # p.to /\ m.total[p.to][p.from] - m.indirect[p.to][p.from] # 0

\* the condition under which the loop appends a row
EmitCond(m, p) == p.from # p.to /\ m.total[p.to][p.from] # 0

\* the rows the double loop appends, in order
EmitRows(path, m) ==
    LET kept == SelectSeq(LoopPairs(path), LAMBDA p : EmitCond(m, p))
    IN [i \in 1..Len(kept) |->
           [index    |-> Arrow(kept[i].from, kept[i].to),
            from     |-> kept[i].from,
            to       |-> kept[i].to,
            direct   |-> path[kept[i].to][kept[i].from],
            indirect |-> m.indirect[kept[i].to][kept[i].from],
            total    |-> m.total[kept[i].to][kept[i].from]]]

_effects(path) ==
    EmitRows(path, IF NumLabels(path) = 2
                   THEN SpecialBranch(path)
                   ELSE GeneralBranch(path))

\* -------------------------------------------------------------- InnerModel
\* <<1, ..., n>>: the labels of a table in index order
Index(n) == LET F(i) == i IN Tabulate(F, n)

\* a number as a fraction num/den; den = 0 is the float division by zero
Frac(num, den) == [num |-> num, den |-> den]

\* pd.Series(0.0, index=path.index)
ZeroSeries(n) == LET F(i) == Frac(0, 1) IN Tabulate(F, n)

\* path.sum(axis=1): the sum of row r
RowSum(path, r) == SumTo(path[r], NumLabels(path))

\* Endogenous with a fault: the sums taken down the columns (axis=0)
EndogenousByColumn(path) ==
    SelectSeq(Index(NumLabels(path)),
              LAMBDA c : SumTo([r \in Labels(path) |-> path[r][c]], NumLabels(path)) # 0)

\* path.sum(axis=1).astype(bool), then the labels where it is True, in index order
Endogenous(path) ==
    SelectSeq(Index(NumLabels(path)), LAMBDA r : RowSum(path, r) # 0)

\* path.loc[dv,][path.loc[dv,] == 1].index: the predictors of dv, in column order
Predictors(path, dv) ==
    SelectSeq(Index(NumLabels(path)), LAMBDA c : path[dv][c] = 1)

\* sm.OLS(scores[dv], sm.add_constant(scores[ivs])).fit(): the results a fit can
\* give. params is labelled: "const" first, then the predictors in column order.
\* rsquared is the numerator of a value in [0, 1] over RDen.
Regressions(ivs) ==
    { [params   |-> <<[name |-> "const", value |-> c0]>> \o
                    [j \in 1..Len(ivs) |-> [name |-> LVNames[ivs[j]], value |-> b[j]]],
       rsquared |-> q] :
      c0 \in InterceptVals, b \in [1..Len(ivs) -> FitVals], q \in 0..RDen }

\* the entry of a labelled Series under a label
ParamOf(params, name) ==
    params[CHOOSE j \in 1..Len(params) : params[j].name = name].value

\* AssignCoefficients with a fault: the values taken by position (as from
\* regression.params.values), so that the intercept lands on the first predictor
AssignCoefficientsByPosition(coefs, dv, ivs, params) ==
    LET F(r, c) == IF r = dv /\ \E j \in 1..Len(ivs) : ivs[j] = c
                   THEN params[CHOOSE j \in 1..Len(ivs) : ivs[j] = c].value
                   ELSE coefs[r][c]
    IN Table(F, NumLabels(coefs))

\* self.__path_coefficients.loc[dv, ivs] = regression.params: the assignment
\* aligns the Series on the labels ivs, so "const" goes nowhere
AssignCoefficients(coefs, dv, ivs, params) ==
    LET F(r, c) == IF r = dv /\ \E j \in 1..Len(ivs) : ivs[j] = c
                   THEN ParamOf(params, LVNames[c])
                   ELSE coefs[r][c]
    IN Table(F, NumLabels(coefs))

\* AdjRSquared with a fault: the two degrees of freedom exchanged
AdjRSquaredInverted(rsquared, n_rows, p) ==
    Frac(RDen * (n_rows - 1) - (RDen - rsquared) * (n_rows - p - 1),
         RDen * (n_rows - 1))

\* 1 - (1 - rsquared) * (rows - 1) / (rows - path.loc[dv].sum() - 1)
AdjRSquared(rsquared, n_rows, p) ==
    Frac(RDen * (n_rows - p - 1) - (RDen - rsquared) * (n_rows - 1),
         RDen * (n_rows - p - 1))

\* DropConst with a fault: the "const" row kept
KeepConst(summary) == summary

\* summary.drop(['const']): the rows but the one labelled "const"
DropConst(summary) == SelectSeq(summary, LAMBDA row : row.from # "const")

\* _summary(dv, regression): one row per entry of regression.params, then the
\* "const" row dropped.  The columns std error, t and p>|t| are copied from the
\* regression row by row like estimate and are left out.
_summary(dv, regression) ==
    DropConst([j \in 1..Len(regression.params) |->
                  [from     |-> regression.params[j].name,
                   to       |-> LVNames[dv],
                   estimate |-> regression.params[j].value,
                   index    |-> regression.params[j].name \o " -> " \o LVNames[dv]]])

\* pd.concat([self.__summaries, summary]).reset_index(drop=True); None is skipped
ConcatSummaries(summaries, summary) ==
    [is_none |-> FALSE, rows |-> summaries.rows \o summary]

\* -------------------------------------------------------------- OuterModel
\* the indicators (manifest variables) and latent variables of the outer model
MVNames == <<"x1", "x2">>
OuterLVs == <<"A", "B">>
NumMVs == Len(MVNames)
NumOuterLVs == Len(OuterLVs)

\* (self.__crossloadings * odm).sum(axis=1): per indicator
Loading(crossloadings, odm) ==
    LET F(i) == SumTo([k \in 1..NumOuterLVs |-> crossloadings[i][k] * odm[i][k]],
                      NumOuterLVs)
    IN Tabulate(F, NumMVs)

\* loading.apply(lambda s: pow(s, 2))
Communality(loading) == LET F(i) == loading[i] * loading[i] IN Tabulate(F, NumMVs)

\* np.diag(r_squared) as a table over the latent variables
Diag(r2) == LET F(r, c) == IF r = c THEN r2[r] ELSE 0 IN Table(F, NumOuterLVs)

\* odm.dot(diag)
OdmDot(odm, diag) ==
    LET F(i, c) == SumTo([k \in 1..NumOuterLVs |-> odm[i][k] * diag[k][c]], NumOuterLVs)
    IN Grid(F, NumMVs, NumOuterLVs)

\* RSquaredAux with a fault: the R^2 values summed without the design matrix
RSquaredAuxAll(odm, r2) == LET F(i) == SumTo(r2, NumOuterLVs) IN Tabulate(F, NumMVs)

\* odm.dot(np.diag(r_squared)).sum(axis=1)
RSquaredAux(odm, r2) ==
    LET prod == OdmDot(odm, Diag(r2))
        F(i) == SumTo(prod[i], NumOuterLVs)
    IN Tabulate(F, NumMVs)

\* pd.concat([weights, loading, communality, redundancy], axis=1): one row per
\* indicator; redundancy = communality * r_squared_aux
OuterTable(weights, crossloadings, odm, r2) ==
    LET loading == Loading(crossloadings, odm)
        communality == Communality(loading)
        r_squared_aux == RSquaredAux(odm, r2)
        F(i) == [weight      |-> weights[i],
                 loading     |-> loading[i],
                 communality |-> communality[i],
                 redundancy  |-> communality[i] * r_squared_aux[i]]
    IN Tabulate(F, NumMVs)

\* --------------------------------------------------------------------- state
VARIABLES
    e_path,      \* the matrix _effects is called with
    e_pc,        \* "call" before _effects runs, "returned" after
    e_effects,   \* the table it returned (empty before the call)
    path,        \* InnerModel.__init__'s path matrix
    rows,        \* scores.shape[0]
    pc,          \* "fit": in the loop of __init__; "done": constructed; "failed": it raised
    next_dv,     \* position of the loop in self.__endogenous
    self,        \* the private fields of the InnerModel
    ols_calls,   \* the fits made so far: <<[dv, regression], ...>>
    ret,         \* what the last accessor call gave the caller
    o_args,      \* OuterModel.__init__'s arguments
    o_pc,        \* "new": before OuterModel.__init__; "done": constructed
    o_self,      \* the private fields of the OuterModel
    o_ret        \* the OuterModel accessor called last

vars == <<e_path, e_pc, e_effects, path, rows, pc, next_dv, self, ols_calls, ret,
          o_args, o_pc, o_self, o_ret>>

effects_vars == <<e_path, e_pc, e_effects>>
inner_vars == <<path, rows, pc, next_dv, self, ols_calls, ret>>
outer_vars == <<o_args, o_pc, o_self, o_ret>>

NoRet == [acc |-> "none", raised |-> FALSE, ref |-> "none", copy |-> <<>>]

\* the state in which a specification does not use the InnerModel
InnerIdle ==
    /\ path = <<>> /\ rows = 0 /\ pc = "idle" /\ next_dv = 0
    /\ self = <<>> /\ ols_calls = <<>> /\ ret = NoRet

EffectsIdle == e_path = <<>> /\ e_pc = "idle" /\ e_effects = <<>>

OuterIdle == o_args = <<>> /\ o_pc = "idle" /\ o_self = <<>> /\ o_ret = "none"

\* ------------------------------------------------------- _effects on its own
\* square matrices over the first n names, zero diagonal, at most MaxArrows
\* nonzero entries
OffDiag(n) == {<<r, c>> \in (1..n) \X (1..n) : r # c}

ArrowSets(n) == {B \in SUBSET OffDiag(n) : Cardinality(B) <= MaxArrows}

\* the matrix whose entries at the places of f are f's values, 0 elsewhere
MatrixOf(n, f) ==
    LET F(r, c) == IF <<r, c>> \in DOMAIN f THEN f[<<r, c>>] ELSE 0 IN Table(F, n)

InitEffects ==
    /\ \E n \in 2..MaxLVs : \E A \in ArrowSets(n) : \E f \in [A -> CoefVals] :
           e_path = MatrixOf(n, f)
    /\ e_pc = "call"
    /\ e_effects = <<>>
    /\ InnerIdle
    /\ OuterIdle

CallEffects ==
    /\ e_pc = "call"
    /\ e_pc' = "returned"
    /\ e_effects' = _effects(e_path)
    /\ UNCHANGED <<e_path, inner_vars, outer_vars>>

NextEffects == CallEffects

SpecEffects == InitEffects /\ [][NextEffects]_vars

\* ----------------------------------------------------- InnerModel: __init__
\* the call InnerModel(path, scores) over 2 or 3 latent variables, and the
\* fields as set before the loop
Init ==
    /\ \E n \in {2, 3} : \E A \in ArrowSets(n) :
           path = MatrixOf(n, [a \in A |-> 1])
    /\ rows \in (MaxRows - 1)..MaxRows
    /\ pc = "fit"
    /\ next_dv = 1
    /\ self = [summaries         |-> [is_none |-> TRUE, rows |-> <<>>],
               r_squared         |-> ZeroSeries(NumLabels(path)),
               r_squared_adj     |-> ZeroSeries(NumLabels(path)),
               path_coefficients |-> Filled(path, 0),
               endogenous        |-> Endogenous(path),
               effects           |-> <<>>]
    /\ ols_calls = <<>>
    /\ ret = NoRet
    /\ EffectsIdle
    /\ OuterIdle

\* lines 74-82: one turn of the loop over self.__endogenous
FitStep ==
    /\ pc = "fit"
    /\ next_dv <= Len(self.endogenous)
    /\ LET dv == self.endogenous[next_dv]
           ivs == Predictors(path, dv)
       IN \E regression \in Regressions(ivs) :
            /\ self' = [self EXCEPT
                 !.path_coefficients =
                     AssignCoefficients(@, dv, ivs, regression.params),
                 !.r_squared[dv] = Frac(regression.rsquared, RDen),
                 !.r_squared_adj[dv] =
                     AdjRSquared(regression.rsquared, rows, RowSum(path, dv)),
                 !.summaries = ConcatSummaries(@, _summary(dv, regression))]
            /\ ols_calls' = Append(ols_calls, [dv |-> dv, regression |-> regression])
    /\ next_dv' = next_dv + 1
    /\ UNCHANGED <<path, rows, pc, ret, effects_vars, outer_vars>>

\* the fit raises (a fitting error): __init__ propagates it and no InnerModel
\* is bound
FitRaises ==
    /\ pc = "fit"
    /\ next_dv <= Len(self.endogenous)
    /\ pc' = "failed"
    /\ UNCHANGED <<path, rows, next_dv, self, ols_calls, ret, effects_vars, outer_vars>>

\* line 83, after the loop
ComputeEffects ==
    /\ pc = "fit"
    /\ next_dv > Len(self.endogenous)
    /\ self' = [self EXCEPT !.effects = _effects(self.path_coefficients)]
    /\ pc' = "done"
    /\ UNCHANGED <<path, rows, next_dv, ols_calls, ret, effects_vars, outer_vars>>

\* ---------------------------------------------------- InnerModel: accessors
\* an accessor that returns the stored object itself
Handed(acc) == [acc |-> acc, raised |-> FALSE, ref |-> acc, copy |-> <<>>]

Accessor(acc) ==
    /\ pc = "done"
    /\ ret' = Handed(acc)
    /\ UNCHANGED <<path, rows, pc, next_dv, self, ols_calls, effects_vars, outer_vars>>

path_coefficients == Accessor("path_coefficients")
r_squared == Accessor("r_squared")
r_squared_adj == Accessor("r_squared_adj")
effects == Accessor("effects")
endogenous == Accessor("endogenous")

\* self.__summaries.set_index(['index']): a new table; None has no set_index
SetIndex(summaries) ==
    IF summaries.is_none
    THEN [acc |-> "inner_model", raised |-> TRUE, ref |-> "none", copy |-> <<>>]
    ELSE [acc |-> "inner_model", raised |-> FALSE, ref |-> "none",
          copy |-> summaries.rows]

inner_model ==
    /\ pc = "done"
    /\ ret' = SetIndex(self.summaries)
    /\ UNCHANGED <<path, rows, pc, next_dv, self, ols_calls, effects_vars, outer_vars>>

Construct == FitStep \/ FitRaises \/ ComputeEffects

Access ==
    \/ path_coefficients \/ r_squared \/ r_squared_adj
    \/ inner_model \/ effects \/ endogenous

Next == Construct \/ Access

Spec == Init /\ [][Next]_vars

\* ------------------------------------------------ a caller that writes tables
\* what an in-place write of the caller leaves in a table it holds: a cell set
\* (tbl.iloc[0, 0] = v, s.iloc[0] = v), the rows dropped in place, list.clear()
CallerWrite(field, obj) ==
    CASE field = "path_coefficients" -> [obj EXCEPT ![1][1] = CHOOSE v \in CallerVals : TRUE]
      [] field \in {"r_squared", "r_squared_adj"} ->
             [obj EXCEPT ![1] = Frac(CHOOSE v \in CallerVals : TRUE, 1)]
      [] OTHER -> <<>>

\* the caller writes to the object the last accessor call handed back: the
\* stored object itself when the accessor returned it (ret.ref), the caller's
\* own table when the accessor built a new one (ret.copy)
CallerWrites ==
    /\ pc = "done"
    /\ ret.acc # "none"
    /\ ~ret.raised
    /\ IF ret.ref # "none"
       THEN /\ self' = [self EXCEPT ![ret.ref] = CallerWrite(ret.ref, @)]
            /\ ret' = ret
       ELSE /\ ret' = [ret EXCEPT !.copy = <<>>]
            /\ self' = self
    /\ UNCHANGED <<path, rows, pc, next_dv, ols_calls, effects_vars, outer_vars>>

NextCaller == Construct \/ Access \/ CallerWrites

SpecCaller == Init /\ [][NextCaller]_vars

\* ------------------------------------------------------ OuterModel: the class
\* the 0/1 tables of indicators by latent variables
DesignMatrices == [1..NumMVs -> [1..NumOuterLVs -> {0, 1}]]

\* data.corrwith(s) for each score column s: the correlations pandas computes
\* from data and y, numerators of values in [-1, 1]
CorrTables == [1..NumMVs -> [1..NumOuterLVs -> CorrVals]]

InitOuter ==
    /\ \E corr \in CorrTables, odm \in DesignMatrices,
          r2 \in [1..NumOuterLVs -> 0..RDen], w \in WeightVals :
          o_args = [corr      |-> corr,
                    odm       |-> odm,
                    r_squared |-> r2,
                    weights   |-> [i \in 1..NumMVs |-> w]]
    /\ o_pc = "new"
    /\ o_self = <<>>
    /\ o_ret = "none"
    /\ InnerIdle
    /\ EffectsIdle

\* OuterModel.__init__
OuterInit ==
    /\ o_pc = "new"
    /\ o_self' = [crossloadings |-> o_args.corr,
                  outer_model   |-> OuterTable(o_args.weights, o_args.corr,
                                               o_args.odm, o_args.r_squared)]
    /\ o_pc' = "done"
    /\ UNCHANGED <<o_args, o_ret, inner_vars, effects_vars>>

\* OuterModel.model
model ==
    /\ o_pc = "done"
    /\ o_ret' = "model"
    /\ UNCHANGED <<o_args, o_pc, o_self, inner_vars, effects_vars>>

\* OuterModel.crossloadings
crossloadings ==
    /\ o_pc = "done"
    /\ o_ret' = "crossloadings"
    /\ UNCHANGED <<o_args, o_pc, o_self, inner_vars, effects_vars>>

NextOuter == OuterInit \/ model \/ crossloadings

SpecOuter == InitOuter /\ [][NextOuter]_vars

\* ------------------------------------------------------- claims on _effects
\* there is an arrow from -> to when the entry at [to][from] is not 0
HasArrow(m, from, to) == m[to][from] # 0

\* node sequences of k nodes over the labels of m
NodeSeqs(m, k) == [1..k -> Labels(m)]

Distinct(s) == \A i, j \in DOMAIN s : i # j => s[i] # s[j]

\* every step of s is an arrow of m
Follows(m, s) == \A i \in 1..(Len(s) - 1) : HasArrow(m, s[i], s[i + 1])

\* no directed cycle
Acyclic(m) ==
    \A k \in 2..NumLabels(m) : \A s \in NodeSeqs(m, k) :
        ~(Distinct(s) /\ Follows(m, s) /\ HasArrow(m, s[k], s[1]))

RECURSIVE ProductAlong(_, _, _)
\* the product of the coefficients on the first k steps of s
ProductAlong(m, s, k) ==
    IF k = 0 THEN 1 ELSE m[s[k + 1]][s[k]] * ProductAlong(m, s, k - 1)

RECURSIVE SumOver(_, _, _)
\* the sum of ProductAlong over the node sequences in S
SumOver(m, S, k) ==
    IF S = {} THEN 0
    ELSE LET s == CHOOSE t \in S : TRUE
         IN ProductAlong(m, s, k) + SumOver(m, S \ {s}, k)

\* the node sequences of k steps from -> to
Between(m, from, to, k) ==
    {<<from>> \o mid \o <<to>> : mid \in NodeSeqs(m, k - 1)}

\* the routes of k steps from -> to: node sequences without a repeated node
Routes(m, from, to, k) ==
    {s \in Between(m, from, to, k) : Distinct(s) /\ Follows(m, s)}

\* the walks of k steps from -> to: nodes may repeat
Walks(m, from, to, k) ==
    {s \in Between(m, from, to, k) : Follows(m, s)}

RECURSIVE RouteSum(_, _, _, _)
\* the sum of the products along the routes of 2, ..., k steps
RouteSum(m, from, to, k) ==
    IF k < 2 THEN 0
    ELSE SumOver(m, Routes(m, from, to, k), k) + RouteSum(m, from, to, k - 1)

RECURSIVE WalkSum(_, _, _, _)
\* the sum of the products along the walks of 1, ..., k steps
WalkSum(m, from, to, k) ==
    IF k < 1 THEN 0
    ELSE SumOver(m, Walks(m, from, to, k), k) + WalkSum(m, from, to, k - 1)

\* the total effect of from on to: the coefficient alone among 2 variables,
\* else the power series path + path^2 + ... + path^num_lvs read at [to][from]
TotalEffect(m, from, to) ==
    IF NumLabels(m) = 2 THEN m[to][from]
    ELSE WalkSum(m, from, to, NumLabels(m))

EffectRows == {e_effects[i] : i \in 1..Len(e_effects)}

\* C1: on an acyclic matrix over n >= 3 variables, every row (from, to) of the
\* effects table has direct = the coefficient at [to][from], indirect = the sum
\* over the routes from -> to of 2 or more steps of the product of the
\* coefficients along the route, and total = direct + indirect.
C1_EffectsDecomposition ==
    (e_pc = "returned" /\ NumLabels(e_path) >= 3 /\ Acyclic(e_path)) =>
        \A row \in EffectRows :
            /\ row.direct = e_path[row.to][row.from]
            /\ row.indirect =
                   RouteSum(e_path, row.from, row.to, NumLabels(e_path) - 1)
            /\ row.total = row.direct + row.indirect

\* the chain A -> B -> C without an arrow A -> C: the row A -> C holds
\* direct 0 and indirect = total = coefficient(A->B) * coefficient(B->C)
C1_Witness ==
    /\ e_pc = "returned"
    /\ NumLabels(e_path) = 3
    /\ Acyclic(e_path)
    /\ HasArrow(e_path, 1, 2) /\ HasArrow(e_path, 2, 3) /\ ~HasArrow(e_path, 1, 3)
    /\ \E row \in EffectRows :
          /\ row.from = 1 /\ row.to = 3 /\ row.index = "A -> C"
          /\ row.direct = 0
          /\ row.indirect = e_path[2][1] * e_path[3][2]
          /\ row.total = row.indirect

\* C2: the effects table holds exactly one row for each ordered pair (from, to)
\* with from # to whose total effect is not 0, and no other row.
C2_RowsExactlyNonzeroTotals ==
    e_pc = "returned" =>
        /\ \A row \in EffectRows :
              /\ row.from # row.to
              /\ row.total # 0
              /\ row.total = TotalEffect(e_path, row.from, row.to)
        /\ \A from, to \in Labels(e_path) :
              (from # to /\ ~\E row \in EffectRows : row.from = from /\ row.to = to)
                  => TotalEffect(e_path, from, to) = 0
        /\ \A i, j \in 1..Len(e_effects) :
              (e_effects[i].from = e_effects[j].from
                  /\ e_effects[i].to = e_effects[j].to) => i = j

\* a direct coefficient cancelled by the indirect effect: the pair has no row,
\* while other pairs do
C2_Witness ==
    /\ e_pc = "returned"
    /\ e_effects # <<>>
    /\ \E from, to \in Labels(e_path) :
          /\ from # to
          /\ e_path[to][from] # 0
          /\ TotalEffect(e_path, from, to) = 0
          /\ \A row \in EffectRows : ~(row.from = from /\ row.to = to)

\* C3: on a matrix over exactly 2 variables with a zero diagonal, the table
\* _effects returns (the num_lvs = 2 branch) is the table the power-series
\* branch gives on the same matrix.
C3_SpecialCaseRedundant ==
    (e_pc = "returned" /\ NumLabels(e_path) = 2
        /\ \A v \in Labels(e_path) : e_path[v][v] = 0) =>
        e_effects = EmitRows(e_path, GeneralBranch(e_path))

\* 2 variables with arrows both ways: path.dot(path) is not the zero matrix,
\* and the rows hold indirect 0 and total = direct
C3_Witness ==
    /\ e_pc = "returned"
    /\ NumLabels(e_path) = 2
    /\ HasArrow(e_path, 1, 2) /\ HasArrow(e_path, 2, 1)
    /\ GeneralBranch(e_path).indirect # Filled(e_path, 0)
    /\ Len(e_effects) = 2
    /\ \A row \in EffectRows : row.indirect = 0 /\ row.total = row.direct


\* ----------------------------------------------------- claims on InnerModel
\* the predictors of dv read off the path matrix: the columns holding 1
Arrows(dv) == {iv \in Labels(path) : path[dv][iv] = 1}

\* the variables with an incoming path, in row order
WithIncoming == SelectSeq(Index(NumLabels(path)), LAMBDA v : Cardinality(Arrows(v)) > 0)

\* the variables fitted so far, in the order of the fits
FittedDVs == [i \in 1..Len(ols_calls) |-> ols_calls[i].dv]

\* C4: the list endogenous() returns is the variables whose path-matrix row
\* sum is > 0, in row order; one regression is fitted for each of them and for
\* no other variable; every exogenous variable keeps R^2 = 0 and adjusted
\* R^2 = 0.
C4_EndogenousFittedOnce ==
    pc = "done" =>
        /\ self.endogenous = WithIncoming
        /\ FittedDVs = WithIncoming
        /\ \A v \in Labels(path) :
              Arrows(v) = {} =>
                  /\ self.r_squared[v] = Frac(0, 1)
                  /\ self.r_squared_adj[v] = Frac(0, 1)

\* endogenous() has returned for a model with an exogenous variable that other
\* variables depend on and an endogenous one with a nonzero R^2
C4_Witness ==
    /\ pc = "done"
    /\ ret = Handed("endogenous")
    /\ \E x, y \in Labels(path) :
          /\ Arrows(x) = {} /\ x \in Arrows(y)
          /\ self.r_squared[y].num > 0
          /\ self.endogenous # <<>>
          /\ \A i \in 1..Len(self.endogenous) : self.endogenous[i] # x

\* the regression fitted for dv
RegressionOf(dv) ==
    ols_calls[CHOOSE i \in 1..Len(ols_calls) : ols_calls[i].dv = dv].regression

\* C5: after construction the path-coefficients matrix has the labels of the
\* path matrix; its entry (to, from) is 0 where path[to, from] is 0 and the
\* fitted coefficient of from where path[to, from] is 1; no entry holds a
\* fitted intercept.
C5_CoefficientsOnPathsOnly ==
    pc = "done" =>
        /\ Labels(self.path_coefficients) = Labels(path)
        /\ \A to, from \in Labels(path) :
              /\ Labels(self.path_coefficients[to]) = Labels(path[to])
              /\ path[to][from] = 0 => self.path_coefficients[to][from] = 0
              /\ path[to][from] = 1 =>
                     self.path_coefficients[to][from] =
                         ParamOf(RegressionOf(to).params, LVNames[from])
              /\ self.path_coefficients[to][from] \notin InterceptVals

\* a variable with two predictors and one non-predictor: the two entries hold
\* the two fitted coefficients, which differ, and the third holds 0
C5_Witness ==
    /\ pc = "done"
    /\ NumLabels(path) = 3
    /\ \E to, a, b \in Labels(path) :
          /\ a < b /\ Arrows(to) = {a, b}
          /\ self.path_coefficients[to][a] # self.path_coefficients[to][b]
          /\ self.path_coefficients[to][a] # 0
          /\ self.path_coefficients[to][b] # 0
          /\ self.path_coefficients[to][to] = 0
          /\ RegressionOf(to).params[1].name = "const"

\* the structural paths in the order of the path matrix's rows, then columns
PathPairs ==
    LET n == NumLabels(path)
    IN SelectSeq([i \in 1..(n * n) |-> [dv |-> ((i - 1) \div n) + 1,
                                         iv |-> ((i - 1) % n) + 1]],
                 LAMBDA q : path[q.dv][q.iv] = 1)

\* C6: the table inner_model() returns has exactly one row for every pair
\* (dv, iv) with path[dv, iv] = 1, labelled "<iv> -> <dv>", grouped by
\* endogenous variable in the order the regressions are fitted; it has no row
\* for an intercept and none for a pair without a path.
C6_SummaryRowPerPath ==
    (ret.acc = "inner_model" /\ ~ret.raised) =>
        /\ Len(ret.copy) = Len(PathPairs)
        /\ \A i \in 1..Len(ret.copy) :
              /\ ret.copy[i].index = Arrow(PathPairs[i].iv, PathPairs[i].dv)
              /\ ret.copy[i].from = LVNames[PathPairs[i].iv]
              /\ ret.copy[i].to = LVNames[PathPairs[i].dv]
              /\ ret.copy[i].from # "const"
        /\ \A i \in 1..Len(ret.copy) : \A j \in 1..Len(ret.copy) :
              (i < j) =>
                  \E a, b \in 1..Len(FittedDVs) :
                      /\ a <= b
                      /\ LVNames[FittedDVs[a]] = ret.copy[i].to
                      /\ LVNames[FittedDVs[b]] = ret.copy[j].to

\* inner_model() has returned the three rows of B <- A, C <- A, C <- B
C6_Witness ==
    /\ ret.acc = "inner_model" /\ ~ret.raised
    /\ Len(ret.copy) = 3
    /\ ret.copy[1].index = "A -> B"
    /\ ret.copy[2].index = "A -> C"
    /\ ret.copy[3].index = "B -> C"

\* a <= b for fractions with positive denominators
FracLeq(a, b) == a.num * b.den <= b.num * a.den

\* C8: for every fitted variable with p > 0 predictors and n cases such that
\* n - p - 1 > 0, the stored adjusted R^2 is at most the stored R^2.
C8_AdjustedAtMostRSquared ==
    \A i \in 1..Len(ols_calls) :
        LET dv == ols_calls[i].dv
            p == Cardinality(Arrows(dv))
        IN (p > 0 /\ rows - p - 1 > 0) =>
              /\ self.r_squared_adj[dv].den > 0
              /\ self.r_squared[dv].den > 0
              /\ FracLeq(self.r_squared_adj[dv], self.r_squared[dv])

\* a fitted variable with R^2 < 1 and n - p - 1 > 0: its adjusted R^2 is
\* strictly below its R^2
C8_Witness ==
    \E i \in 1..Len(ols_calls) :
        LET dv == ols_calls[i].dv
            p == Cardinality(Arrows(dv))
        IN /\ p = 2 /\ rows - p - 1 > 0
           /\ ols_calls[i].regression.rsquared > 0
           /\ ols_calls[i].regression.rsquared < RDen
           /\ FracLeq(self.r_squared_adj[dv], self.r_squared[dv])
           /\ ~FracLeq(self.r_squared[dv], self.r_squared_adj[dv])

\* C9: either construction fails entirely or it completes, and then each
\* accessor called returns its table without failing.
C9_AccessorsNeverFail ==
    /\ pc # "done" => ret = NoRet
    /\ pc = "done" => ~ret.raised

\* C10: once constructed, the stored outputs never change, whatever the caller
\* does with the tables handed back.
C10_OutputsNeverChange == [][pc = "done" => self' = self]_vars

\* ----------------------------------------------------- claims on OuterModel
\* the latent variables whose block holds indicator i
Owners(i) == {k \in 1..NumOuterLVs : o_args.odm[i][k] = 1}

\* C7: for every indicator, with its single owning latent variable,
\* loading = the sum over the latent variables of cross-loading x design
\* entry, communality = loading^2, redundancy = communality x R^2 of the
\* owner; redundancy is 0 when the owner's R^2 is 0.
C7_Redundancy ==
    o_pc = "done" =>
        \A i \in 1..NumMVs : \A k \in Owners(i) :
            Owners(i) = {k} =>
                LET row == o_self.outer_model[i]
                IN /\ row.loading = o_self.crossloadings[i][k]
                   /\ row.loading =
                          SumTo([j \in 1..NumOuterLVs |->
                                    o_self.crossloadings[i][j] * o_args.odm[i][j]],
                                NumOuterLVs)
                   /\ row.communality = row.loading * row.loading
                   /\ row.redundancy = row.communality * o_args.r_squared[k]
                   /\ o_args.r_squared[k] = 0 => row.redundancy = 0

\* one indicator of an exogenous variable with a nonzero communality and
\* redundancy 0, one of an endogenous variable with a nonzero redundancy
C7_Witness ==
    /\ o_pc = "done"
    /\ Owners(1) = {1} /\ Owners(2) = {2}
    /\ o_args.r_squared[1] = 0 /\ o_args.r_squared[2] > 0
    /\ o_self.outer_model[1].communality # 0
    /\ o_self.outer_model[1].redundancy = 0
    /\ o_self.outer_model[2].redundancy # 0
    /\ o_self.crossloadings[1][2] # 0

====
